---- MODULE Spec2Model ----
(***************************************************************************)
(* Ledger mutation core of the banking back office: transfer_money,        *)
(* create_transaction, approve_loan, reject_loan and create_new_account,   *)
(* run by concurrent request handlers against one PostgreSQL store.        *)
(*                                                                         *)
(* The committed tables are the variables accounts, transactions, loans.   *)
(* Every handler opens its own connection (db.get_cursor); its writes stay *)
(* in wr[p] until the connection commits, and its row locks (holder) are   *)
(* released when the connection commits or rolls back.  Amounts are whole  *)
(* numbers of the smallest currency unit.                                  *)
(***************************************************************************)
EXTENDS Integers, Sequences, FiniteSets, TLC

\* ---------------------------------------------------------------- bounds
MaxAmount == 1
MaxCalls == 2

Procs == {"p1", "p2"}
ProcNo(p) == IF p = "p1" THEN 1 ELSE 2
NoProc == "none"

SeedAccounts == {1, 2}
AccountIds == {1, 2, 3}
SeedLoans == {1}
LoanIds == {1, 2}
EmployeeIds == {7}
Amounts == 0..MaxAmount
InitBalances == {0, 1}
TxTypeArgs == {"DEBIT", "CREDIT"}
AllTxTypes == {"DEBIT", "CREDIT", "WITHDRAWAL", "TRANSFER_OUT", "FEE", "debit"}
PostAmounts == -1..MaxAmount
PostAccounts == {1, 3}
CustomerIds == {1, 2}
TenureArgs == {0, 12}
TransferArgs == AccountIds \cup {4}
LoanAccounts == {1, 3}

NoAccount == 0
NoEmployee == 0

VARIABLES
    accounts,      \* committed accounts table: account_id -> balance
    transactions,  \* committed transactions table: set of rows
    loans,         \* committed loans table: loan_id -> row
    txSeq,         \* next value of the transactions.tx_id sequence
    holder,        \* row lock table: row -> connection holding FOR UPDATE
    pc,            \* position of each request handler
    call,          \* the call each handler is running
    toLock,        \* rows the running SELECT ... FOR UPDATE has yet to lock
    rd,            \* balances the handler has read under lock
    wr,            \* uncommitted writes of the handler's connection
    ret,           \* result of the finished call
    calls          \* number of calls issued so far

vars == <<accounts, transactions, loans, txSeq, holder, pc, call,
          toLock, rd, wr, ret, calls>>

\* ------------------------------------------------------------ data shapes
AcctRow(a) == <<"accounts", a>>
LoanRow(l) == <<"loans", l>>
Rows == {AcctRow(a) : a \in AccountIds} \cup {LoanRow(l) : l \in LoanIds}

EmptyMap == [x \in {} |-> 0]
NoWrites == [bal |-> EmptyMap, txs |-> {}, loan |-> EmptyMap]

NoCall == [op |-> "none", account_id |-> 0, other |-> 0, amount |-> 0,
           loan_id |-> 0, employee_id |-> 0, tx_type |-> "none",
           description |-> "", second |-> 0]
NoRet == [op |-> "none", ok |-> "pending", msg |-> ""]

TxRow(id, account_id, tx_type, amount, balance_after, related_account, description) ==
    [tx_id |-> id, account_id |-> account_id, tx_type |-> tx_type,
     amount |-> amount, balance_after |-> balance_after,
     related_account |-> related_account, description |-> description]

\* ----------------------------------------------------------- pure helpers
DebitTypes == {"WITHDRAWAL", "DEBIT", "TRANSFER_OUT"}

\* str.upper() on the type names a caller can pass.
upper(tx_type) ==
    CASE tx_type = "debit" -> "DEBIT"
      [] tx_type = "credit" -> "CREDIT"
      [] tx_type = "withdrawal" -> "WITHDRAWAL"
      [] tx_type = "transfer_out" -> "TRANSFER_OUT"
      [] tx_type = "fee" -> "FEE"
      [] OTHER -> tx_type

SignOfAlwaysCredit(tx_type) == 1
SignOfExactCase(tx_type) == IF tx_type \in DebitTypes THEN -1 ELSE 1
SignOf(tx_type) == IF upper(tx_type) \in DebitTypes THEN -1 ELSE 1

check_sufficient_balanceStrict(account_id, amount) ==
    /\ account_id \in DOMAIN accounts
    /\ accounts[account_id] > amount
check_sufficient_balance(account_id, amount) ==
    /\ account_id \in DOMAIN accounts
    /\ accounts[account_id] >= amount

\* Orders in which one SELECT ... WHERE account_id = ANY(ids) FOR UPDATE can
\* lock the rows it matches.  The statement has no ORDER BY: the store locks
\* rows as its scan returns them, so sorting the array parameter fixes
\* nothing and every order of the matched rows is possible.
Orderings(S) ==
    {s \in [1..Cardinality(S) -> S] : \A i, j \in 1..Cardinality(S) : s[i] = s[j] => i = j}
LockOrders(from_account, to_account) ==
    Orderings({from_account, to_account} \cap DOMAIN accounts)

\* ------------------------------------------------------------- row locks
LockFreeNoWait(p, row) == TRUE
LockFree(p, row) == holder[row] \in {NoProc, p}

ReleasedKeepsLocks(p) == holder
Released(p) == [r \in Rows |-> IF holder[r] = p THEN NoProc ELSE holder[r]]

\* The row a handler's current statement is trying to lock (a set of 0 or 1).
Wanted(p) ==
    CASE pc[p] = "tm_select" /\ toLock[p] # <<>> -> {AcctRow(Head(toLock[p]))}
      [] pc[p] = "al_loan" /\ call[p].loan_id \in DOMAIN loans ->
            {LoanRow(call[p].loan_id)}
      [] pc[p] = "al_account" /\ call[p].loan_id \in DOMAIN loans
            /\ loans[call[p].loan_id].linked_account_id \in DOMAIN accounts ->
            {AcctRow(loans[call[p].loan_id].linked_account_id)}
      [] pc[p] = "rl_update" /\ call[p].loan_id \in DOMAIN loans ->
            {LoanRow(call[p].loan_id)}
      [] pc[p] = "ct_lock" /\ call[p].account_id \in DOMAIN accounts ->
            {AcctRow(call[p].account_id)}
      [] pc[p] = "cu_first" /\ call[p].account_id \in DOMAIN accounts ->
            {AcctRow(call[p].account_id)}
      [] pc[p] = "cu_second" /\ call[p].second \in DOMAIN accounts ->
            {AcctRow(call[p].second)}
      [] OTHER -> {}

WaitsOn(p, q) == p # q /\ \E r \in Wanted(p) : holder[r] = q
Blocked(p) == \E q \in Procs : WaitsOn(p, q)

RECURSIVE Reach(_, _)
Reach(S, n) ==
    IF n = 0 THEN S
    ELSE Reach(S \cup {q \in Procs : \E x \in S : WaitsOn(x, q)}, n - 1)
\* p waits, directly or through other waiters, for a lock it holds itself.
InCycle(p) ==
    p \in Reach({q \in Procs : WaitsOn(p, q)}, Cardinality(Procs))
    /\ Blocked(p)

\* ------------------------------------------- db.get_cursor: end of a unit
\* Leaving the with-block normally (also by `return`) commits when
\* commit=True and closes; closing without a commit discards the writes.
\* An exception rolls back and closes.  All three release the row locks.
EndUnitReplacesRows(p, w, commit) ==
    /\ accounts' = IF commit THEN w.bal @@ accounts ELSE accounts
    /\ transactions' = IF commit /\ w.txs # {} THEN w.txs ELSE transactions
    /\ loans' = [l \in DOMAIN loans \cup (IF commit THEN DOMAIN w.loan ELSE {}) |->
                    IF commit /\ l \in DOMAIN w.loan
                    THEN IF l \in DOMAIN loans
                         THEN [loans[l] EXCEPT !.status = w.loan[l].status,
                                               !.employee_id = w.loan[l].employee_id,
                                               !.disbursement_date = w.loan[l].disbursement_date]
                         ELSE w.loan[l]
                    ELSE loans[l]]
    /\ holder' = Released(p)
    /\ wr' = [wr EXCEPT ![p] = NoWrites]
EndUnit(p, w, commit) ==
    /\ accounts' = IF commit THEN w.bal @@ accounts ELSE accounts
    /\ transactions' = IF commit THEN transactions \cup w.txs ELSE transactions
    /\ loans' = [l \in DOMAIN loans \cup (IF commit THEN DOMAIN w.loan ELSE {}) |->
                    IF commit /\ l \in DOMAIN w.loan
                    THEN IF l \in DOMAIN loans
                         THEN [loans[l] EXCEPT !.status = w.loan[l].status,
                                               !.employee_id = w.loan[l].employee_id,
                                               !.disbursement_date = w.loan[l].disbursement_date]
                         ELSE w.loan[l]
                    ELSE loans[l]]
    /\ holder' = Released(p)
    /\ wr' = [wr EXCEPT ![p] = NoWrites]

CommitUnit(p) == EndUnit(p, wr[p], TRUE)
RollbackUnitCommits(p) == EndUnit(p, wr[p], TRUE)
RollbackUnit(p) == EndUnit(p, wr[p], FALSE)

\* The call returns or raises; ret keeps its outcome until the request ends.
Finish(p, op, ok, msg) ==
    /\ pc' = [pc EXCEPT ![p] = "done"]
    /\ ret' = [ret EXCEPT ![p] = [op |-> op, ok |-> ok, msg |-> msg]]
    /\ call' = [call EXCEPT ![p] = NoCall]
    /\ toLock' = [toLock EXCEPT ![p] = <<>>]
    /\ rd' = [rd EXCEPT ![p] = EmptyMap]

\* A request is taken by the first free handler.
Enter(p) ==
    /\ pc[p] = "idle"
    /\ \A q \in Procs : pc[q] = "idle" => ProcNo(p) <= ProcNo(q)
    /\ calls < MaxCalls
    /\ calls' = calls + 1

Start(p, c, at) ==
    /\ call' = [call EXCEPT ![p] = c]
    /\ pc' = [pc EXCEPT ![p] = at]
    /\ UNCHANGED <<ret, toLock, rd>>

\* accounts.customer_id: the customer who owns an account.
customer_id(account_id) == account_id

\* request_loan's f"LN{next_id:010d}".
loan_number(loan_id) == "LN000000000" \o ToString(loan_id)

\* ----------------------------------------------------------------- Init
\* The store as deployed: the seeded accounts, each with its opening deposit
\* (if any) recorded as a CREDIT row, and one PENDING loan whose linked
\* account is one of linked_accounts.
SeedStore(linked_accounts) ==
    /\ accounts \in [SeedAccounts -> InitBalances]
    /\ transactions = {TxRow(a, a, "CREDIT", accounts[a], accounts[a], NoAccount,
                                "Opening deposit") :
                          a \in {x \in SeedAccounts : accounts[x] > 0}}
    /\ \E linked \in linked_accounts :
           loans = [l \in SeedLoans |->
                       [customer_id |-> customer_id(linked),
                        linked_account_id |-> linked, loan_number |-> loan_number(l),
                        principal_amount |-> 1, outstanding_balance |-> 1,
                        status |-> "PENDING", employee_id |-> NoEmployee,
                        disbursement_date |-> "NULL"]]
    /\ txSeq = Cardinality(SeedAccounts) + 1
    /\ holder = [r \in Rows |-> NoProc]
    /\ pc = [p \in Procs |-> "idle"]
    /\ call = [p \in Procs |-> NoCall]
    /\ toLock = [p \in Procs |-> <<>>]
    /\ rd = [p \in Procs |-> EmptyMap]
    /\ wr = [p \in Procs |-> NoWrites]
    /\ ret = [p \in Procs |-> NoRet]
    /\ calls = 0

Init == SeedStore({1})

\* ------------------------------------------------------- transfer_money
transfer_money(p, from_account, to_account, amount, description) ==
    /\ Enter(p)
    /\ Start(p, [NoCall EXCEPT !.op = "transfer_money", !.account_id = from_account,
                               !.other = to_account, !.amount = amount,
                               !.description = description], "tm_check")
    /\ UNCHANGED <<accounts, transactions, loans, txSeq, holder, wr>>

\* The two argument checks and the non-locking pre-check (on its own
\* connection); on success the unit opens and the SELECT ... FOR UPDATE
\* starts with some lock order.
tm_check(p) ==
    /\ pc[p] = "tm_check"
    /\ LET from_account == call[p].account_id
           to_account == call[p].other
           amt == call[p].amount
       IN  IF from_account = to_account
           THEN Finish(p, "transfer_money", "false",
                       "Source and destination accounts must be different.")
           ELSE IF amt <= 0
           THEN Finish(p, "transfer_money", "false", "Amount must be positive.")
           ELSE IF ~check_sufficient_balance(from_account, amt)
           THEN Finish(p, "transfer_money", "false", "Insufficient balance.")
           ELSE /\ pc' = [pc EXCEPT ![p] = "tm_select"]
                /\ \E order \in LockOrders(from_account, to_account) :
                       toLock' = [toLock EXCEPT ![p] = order]
                /\ UNCHANGED <<ret, rd, call>>
    /\ UNCHANGED <<accounts, transactions, loans, txSeq, holder, wr, calls>>

\* The SELECT locks its next row (waiting while another connection holds it)
\* and reads the row's committed balance.
tm_lock(p) ==
    /\ pc[p] = "tm_select"
    /\ toLock[p] # <<>>
    /\ LET a == Head(toLock[p]) IN
        /\ LockFree(p, AcctRow(a))
        /\ holder' = [holder EXCEPT ![AcctRow(a)] = p]
        /\ rd' = [rd EXCEPT ![p] = (a :> accounts[a]) @@ rd[p]]
        /\ toLock' = [toLock EXCEPT ![p] = Tail(toLock[p])]
    /\ UNCHANGED <<accounts, transactions, loans, txSeq, pc, call, wr, ret, calls>>

new_from_balance(from_balance, amt) == from_balance - amt
new_to_balanceSubtract(to_balance, amt) == to_balance - amt
new_to_balance(to_balance, amt) == to_balance + amt

TransferRowsSameRelated(from_account, to_account, amt, nf, nt, id, description) ==
    {TxRow(id, from_account, "DEBIT", amt, nf, to_account, description),
     TxRow(id + 1, to_account, "CREDIT", amt, nt, to_account, description)}
TransferRows(from_account, to_account, amt, nf, nt, id, description) ==
    {TxRow(id, from_account, "DEBIT", amt, nf, to_account, description),
     TxRow(id + 1, to_account, "CREDIT", amt, nt, from_account, description)}

\* After the SELECT, `rows` holds the accounts found and locked.
\* A missing account raises ValueError: get_cursor rolls back and re-raises.
tm_not_found(p) ==
    /\ pc[p] = "tm_select" /\ toLock[p] = <<>>
    /\ call[p].account_id \notin DOMAIN rd[p] \/ call[p].other \notin DOMAIN rd[p]
    /\ RollbackUnit(p)
    /\ Finish(p, "transfer_money", "raised", "One or both accounts not found.")
    /\ UNCHANGED <<txSeq, calls>>

\* The re-check under lock fails: `return` inside the with-block, so
\* get_cursor commits the (empty) unit.
tm_insufficientAfterDebit(p) ==
    /\ pc[p] = "tm_select" /\ toLock[p] = <<>>
    /\ call[p].account_id \in DOMAIN rd[p] /\ call[p].other \in DOMAIN rd[p]
    /\ rd[p][call[p].account_id] < call[p].amount
    /\ EndUnit(p, [NoWrites EXCEPT !.bal =
                      (call[p].account_id :>
                          new_from_balance(rd[p][call[p].account_id], call[p].amount))],
               TRUE)
    /\ Finish(p, "transfer_money", "false", "Insufficient balance.")
    /\ UNCHANGED <<txSeq, calls>>
tm_insufficient(p) ==
    /\ pc[p] = "tm_select" /\ toLock[p] = <<>>
    /\ call[p].account_id \in DOMAIN rd[p] /\ call[p].other \in DOMAIN rd[p]
    /\ rd[p][call[p].account_id] < call[p].amount
    /\ CommitUnit(p)
    /\ Finish(p, "transfer_money", "false", "Insufficient balance.")
    /\ UNCHANGED <<txSeq, calls>>

tm_updateNoRecheck(p) ==
    /\ pc[p] = "tm_select" /\ toLock[p] = <<>>
    /\ call[p].account_id \in DOMAIN rd[p] /\ call[p].other \in DOMAIN rd[p]
    /\ LET f == call[p].account_id
           t == call[p].other
           amt == call[p].amount
           nf == new_from_balance(rd[p][f], amt)
           nt == new_to_balance(rd[p][t], amt)
       IN  wr' = [wr EXCEPT ![p] =
                    [bal |-> (f :> nf) @@ (t :> nt),
                     txs |-> TransferRows(f, t, amt, nf, nt, txSeq, call[p].description),
                     loan |-> EmptyMap]]
    /\ txSeq' = txSeq + 2
    /\ pc' = [pc EXCEPT ![p] = "tm_commit"]
    /\ UNCHANGED <<accounts, transactions, loans, holder, ret, toLock, rd, call, calls>>
tm_updateNoWhere(p) ==
    /\ pc[p] = "tm_select" /\ toLock[p] = <<>>
    /\ call[p].account_id \in DOMAIN rd[p] /\ call[p].other \in DOMAIN rd[p]
    /\ ~(rd[p][call[p].account_id] < call[p].amount)
    /\ LET f == call[p].account_id
           t == call[p].other
           amt == call[p].amount
           nf == new_from_balance(rd[p][f], amt)
           nt == new_to_balance(rd[p][t], amt)
       IN  wr' = [wr EXCEPT ![p] =
                    [bal |-> [a \in DOMAIN accounts |-> nt],
                     txs |-> TransferRows(f, t, amt, nf, nt, txSeq, call[p].description),
                     loan |-> EmptyMap]]
    /\ txSeq' = txSeq + 2
    /\ pc' = [pc EXCEPT ![p] = "tm_commit"]
    /\ UNCHANGED <<accounts, transactions, loans, holder, ret, toLock, rd, call, calls>>
\* The two UPDATEs and the two INSERTs inside the open unit.
tm_update(p) ==
    /\ pc[p] = "tm_select" /\ toLock[p] = <<>>
    /\ call[p].account_id \in DOMAIN rd[p] /\ call[p].other \in DOMAIN rd[p]
    /\ ~(rd[p][call[p].account_id] < call[p].amount)
    /\ LET f == call[p].account_id
           t == call[p].other
           amt == call[p].amount
           nf == new_from_balance(rd[p][f], amt)
           nt == new_to_balance(rd[p][t], amt)
       IN  wr' = [wr EXCEPT ![p] =
                    [bal |-> (f :> nf) @@ (t :> nt),
                     txs |-> TransferRows(f, t, amt, nf, nt, txSeq, call[p].description),
                     loan |-> EmptyMap]]
    /\ txSeq' = txSeq + 2
    /\ pc' = [pc EXCEPT ![p] = "tm_commit"]
    /\ UNCHANGED <<accounts, transactions, loans, holder, ret, toLock, rd, call, calls>>

tm_commit(p) ==
    /\ pc[p] = "tm_commit"
    /\ CommitUnit(p)
    /\ Finish(p, "transfer_money", "true", "Transfer completed successfully.")
    /\ UNCHANGED <<txSeq, calls>>

\* --------------------------------------------------- create_transaction
create_transaction(p, account_id, tx_type, amount, related_account, description) ==
    /\ Enter(p)
    /\ Start(p, [NoCall EXCEPT !.op = "create_transaction", !.account_id = account_id,
                               !.other = related_account, !.amount = amount,
                               !.tx_type = tx_type, !.description = description],
             "ct_lock")
    /\ UNCHANGED <<accounts, transactions, loans, txSeq, holder, wr>>

ct_lockNoForUpdate(p) ==
    /\ pc[p] = "ct_lock"
    /\ LET a == call[p].account_id IN
       IF a \notin DOMAIN accounts
       THEN /\ RollbackUnit(p)
            /\ Finish(p, "create_transaction", "raised", "Account not found")
            /\ UNCHANGED txSeq
       ELSE /\ rd' = [rd EXCEPT ![p] = (a :> accounts[a])]
            /\ LET new_balance == accounts[a] + SignOf(call[p].tx_type) * call[p].amount IN
               wr' = [wr EXCEPT ![p] =
                   [bal |-> (a :> new_balance),
                    txs |-> {TxRow(txSeq, a, call[p].tx_type, call[p].amount,
                                   new_balance, call[p].other, call[p].description)},
                    loan |-> EmptyMap]]
            /\ txSeq' = txSeq + 1
            /\ pc' = [pc EXCEPT ![p] = "ct_commit"]
            /\ UNCHANGED <<accounts, transactions, loans, holder, ret, toLock, call>>
    /\ UNCHANGED calls
\* _do_insert on the function's own connection: lock and read the account,
\* then the UPDATE and the INSERT inside the open unit.
ct_lock(p) ==
    /\ pc[p] = "ct_lock"
    /\ LET a == call[p].account_id IN
       IF a \notin DOMAIN accounts
       THEN /\ RollbackUnit(p)
            /\ Finish(p, "create_transaction", "raised", "Account not found")
            /\ UNCHANGED txSeq
       ELSE /\ LockFree(p, AcctRow(a))
            /\ holder' = [holder EXCEPT ![AcctRow(a)] = p]
            /\ rd' = [rd EXCEPT ![p] = (a :> accounts[a])]
            /\ LET new_balance == accounts[a] + SignOf(call[p].tx_type) * call[p].amount IN
               wr' = [wr EXCEPT ![p] =
                   [bal |-> (a :> new_balance),
                    txs |-> {TxRow(txSeq, a, call[p].tx_type, call[p].amount,
                                   new_balance, call[p].other, call[p].description)},
                    loan |-> EmptyMap]]
            /\ txSeq' = txSeq + 1
            /\ pc' = [pc EXCEPT ![p] = "ct_commit"]
            /\ UNCHANGED <<accounts, transactions, loans, ret, toLock, call>>
    /\ UNCHANGED calls

ct_commit(p) ==
    /\ pc[p] = "ct_commit"
    /\ CommitUnit(p)
    /\ Finish(p, "create_transaction", "none", "")
    /\ UNCHANGED <<txSeq, calls>>

\* ------------------------------- create_transaction on a caller's cursor
\* A caller's unit, `with get_cursor(commit=True) as cur:`, that posts the
\* same type and amount to two accounts with create_transaction(cursor=cur).
caller_unit(p, first, second, tx_type, amount, description) ==
    /\ Enter(p)
    /\ Start(p, [NoCall EXCEPT !.op = "caller_unit", !.account_id = first,
                               !.second = second, !.amount = amount,
                               !.tx_type = tx_type, !.description = description],
             "cu_first")
    /\ UNCHANGED <<accounts, transactions, loans, txSeq, holder, wr>>

\* _do_insert(cursor) inside the caller's unit: the SELECT sees the unit's
\* own earlier UPDATE of the row; ValueError leaves create_transaction and
\* the caller's with-block, where get_cursor rolls the unit back.
do_insert(p, a, next_pc) ==
    IF a \notin DOMAIN accounts
    THEN /\ RollbackUnit(p)
         /\ Finish(p, "caller_unit", "raised", "Account not found")
         /\ UNCHANGED txSeq
    ELSE /\ LockFree(p, AcctRow(a))
         /\ holder' = [holder EXCEPT ![AcctRow(a)] = p]
         /\ LET current_balance == IF a \in DOMAIN wr[p].bal THEN wr[p].bal[a]
                                   ELSE accounts[a]
                new_balance == current_balance + SignOf(call[p].tx_type) * call[p].amount
            IN  /\ rd' = [rd EXCEPT ![p] = (a :> current_balance) @@ rd[p]]
                /\ wr' = [wr EXCEPT ![p] =
                       [bal |-> (a :> new_balance) @@ wr[p].bal,
                        txs |-> wr[p].txs \cup
                                {TxRow(txSeq, a, call[p].tx_type, call[p].amount,
                                       new_balance, NoAccount, call[p].description)},
                        loan |-> EmptyMap]]
         /\ txSeq' = txSeq + 1
         /\ pc' = [pc EXCEPT ![p] = next_pc]
         /\ UNCHANGED <<accounts, transactions, loans, ret, toLock, call>>

cu_first(p) ==
    /\ pc[p] = "cu_first"
    /\ do_insert(p, call[p].account_id, "cu_second")
    /\ UNCHANGED calls

cu_second(p) ==
    /\ pc[p] = "cu_second"
    /\ do_insert(p, call[p].second, "cu_commit")
    /\ UNCHANGED calls

cu_commit(p) ==
    /\ pc[p] = "cu_commit"
    /\ CommitUnit(p)
    /\ Finish(p, "caller_unit", "none", "")
    /\ UNCHANGED <<txSeq, calls>>

\* --------------------------------------------------------- approve_loan
approve_loan(p, loan_id, employee_id) ==
    /\ Enter(p)
    /\ Start(p, [NoCall EXCEPT !.op = "approve_loan", !.loan_id = loan_id,
                               !.employee_id = employee_id], "al_loan")
    /\ UNCHANGED <<accounts, transactions, loans, txSeq, holder, wr>>

al_lock_loanNoLock(p) ==
    /\ pc[p] = "al_loan"
    /\ IF call[p].loan_id \notin DOMAIN loans
       THEN /\ CommitUnit(p)
            /\ Finish(p, "approve_loan", "none", "")
       ELSE /\ pc' = [pc EXCEPT ![p] = "al_account"]
            /\ UNCHANGED <<accounts, transactions, loans, holder, wr, ret, toLock, rd, call>>
    /\ UNCHANGED <<txSeq, calls>>
\* SELECT * FROM loans ... FOR UPDATE; a missing loan returns from the unit.
al_lock_loan(p) ==
    /\ pc[p] = "al_loan"
    /\ LET l == call[p].loan_id IN
       IF l \notin DOMAIN loans
       THEN /\ CommitUnit(p)
            /\ Finish(p, "approve_loan", "none", "")
       ELSE /\ LockFree(p, LoanRow(l))
            /\ holder' = [holder EXCEPT ![LoanRow(l)] = p]
            /\ pc' = [pc EXCEPT ![p] = "al_account"]
            /\ UNCHANGED <<accounts, transactions, loans, wr, ret, toLock, rd, call>>
    /\ UNCHANGED <<txSeq, calls>>

al_lock_accountDebits(p) ==
    /\ pc[p] = "al_account"
    /\ LET l == call[p].loan_id
           a == loans[l].linked_account_id
       IN  IF a \notin DOMAIN accounts
           THEN /\ CommitUnit(p)
                /\ Finish(p, "approve_loan", "none", "")
                /\ UNCHANGED txSeq
           ELSE /\ LockFree(p, AcctRow(a))
                /\ holder' = [holder EXCEPT ![AcctRow(a)] = p]
                /\ rd' = [rd EXCEPT ![p] = (a :> accounts[a])]
                /\ LET new_balance == accounts[a] - loans[l].principal_amount IN
                   wr' = [wr EXCEPT ![p] =
                       [bal |-> (a :> new_balance),
                        txs |-> {TxRow(txSeq, a, "CREDIT", loans[l].principal_amount,
                                       new_balance, NoAccount,
                                       "Loan disbursement #" \o loans[l].loan_number)},
                        loan |-> (l :> [status |-> "ACTIVE",
                                        employee_id |-> call[p].employee_id,
                                        disbursement_date |-> "CURRENT_DATE"])]]
                /\ txSeq' = txSeq + 1
                /\ pc' = [pc EXCEPT ![p] = "al_commit"]
                /\ UNCHANGED <<accounts, transactions, loans, ret, toLock, call>>
    /\ UNCHANGED calls
al_lock_accountMarksActive(p) ==
    /\ pc[p] = "al_account"
    /\ LET l == call[p].loan_id
           a == loans[l].linked_account_id
       IN  IF a \notin DOMAIN accounts
           THEN /\ EndUnit(p, [NoWrites EXCEPT !.loan =
                                  (l :> [status |-> "ACTIVE",
                                         employee_id |-> call[p].employee_id,
                                         disbursement_date |-> "CURRENT_DATE"])],
                           TRUE)
                /\ Finish(p, "approve_loan", "none", "")
                /\ UNCHANGED txSeq
           ELSE /\ LockFree(p, AcctRow(a))
                /\ holder' = [holder EXCEPT ![AcctRow(a)] = p]
                /\ rd' = [rd EXCEPT ![p] = (a :> accounts[a])]
                /\ LET new_balance == accounts[a] + loans[l].principal_amount IN
                   wr' = [wr EXCEPT ![p] =
                       [bal |-> (a :> new_balance),
                        txs |-> {TxRow(txSeq, a, "CREDIT", loans[l].principal_amount,
                                       new_balance, NoAccount,
                                       "Loan disbursement #" \o loans[l].loan_number)},
                        loan |-> (l :> [status |-> "ACTIVE",
                                        employee_id |-> call[p].employee_id,
                                        disbursement_date |-> "CURRENT_DATE"])]]
                /\ txSeq' = txSeq + 1
                /\ pc' = [pc EXCEPT ![p] = "al_commit"]
                /\ UNCHANGED <<accounts, transactions, loans, ret, toLock, call>>
    /\ UNCHANGED calls
\* SELECT balance ... FOR UPDATE on the linked account, then the balance
\* UPDATE, the CREDIT INSERT and the loan UPDATE inside the open unit.
al_lock_account(p) ==
    /\ pc[p] = "al_account"
    /\ LET l == call[p].loan_id
           a == loans[l].linked_account_id
       IN  IF a \notin DOMAIN accounts
           THEN /\ CommitUnit(p)
                /\ Finish(p, "approve_loan", "none", "")
                /\ UNCHANGED txSeq
           ELSE /\ LockFree(p, AcctRow(a))
                /\ holder' = [holder EXCEPT ![AcctRow(a)] = p]
                /\ rd' = [rd EXCEPT ![p] = (a :> accounts[a])]
                /\ LET new_balance == accounts[a] + loans[l].principal_amount IN
                   wr' = [wr EXCEPT ![p] =
                       [bal |-> (a :> new_balance),
                        txs |-> {TxRow(txSeq, a, "CREDIT", loans[l].principal_amount,
                                       new_balance, NoAccount,
                                       "Loan disbursement #" \o loans[l].loan_number)},
                        loan |-> (l :> [status |-> "ACTIVE",
                                        employee_id |-> call[p].employee_id,
                                        disbursement_date |-> "CURRENT_DATE"])]]
                /\ txSeq' = txSeq + 1
                /\ pc' = [pc EXCEPT ![p] = "al_commit"]
                /\ UNCHANGED <<accounts, transactions, loans, ret, toLock, call>>
    /\ UNCHANGED calls

al_commitLoanOnly(p) ==
    /\ pc[p] = "al_commit"
    /\ EndUnit(p, [wr[p] EXCEPT !.bal = EmptyMap, !.txs = {}], TRUE)
    /\ Finish(p, "approve_loan", "none", "")
    /\ UNCHANGED <<txSeq, calls>>
al_commit(p) ==
    /\ pc[p] = "al_commit"
    /\ CommitUnit(p)
    /\ Finish(p, "approve_loan", "none", "")
    /\ UNCHANGED <<txSeq, calls>>

\* ---------------------------------------------------------- reject_loan
reject_loan(p, loan_id, employee_id) ==
    /\ Enter(p)
    /\ Start(p, [NoCall EXCEPT !.op = "reject_loan", !.loan_id = loan_id,
                               !.employee_id = employee_id], "rl_update")
    /\ UNCHANGED <<accounts, transactions, loans, txSeq, holder, wr>>

\* db.execute: one UPDATE (which takes the loan's row lock) and the commit.
rl_update(p) ==
    /\ pc[p] = "rl_update"
    /\ LET l == call[p].loan_id IN
       IF l \notin DOMAIN loans
       THEN CommitUnit(p)
       ELSE /\ LockFree(p, LoanRow(l))
            /\ EndUnit(p, [NoWrites EXCEPT !.loan =
                              (l :> [status |-> "REJECTED",
                                     employee_id |-> call[p].employee_id,
                                     disbursement_date |-> loans[l].disbursement_date])],
                       TRUE)
    /\ Finish(p, "reject_loan", "none", "")
    /\ UNCHANGED <<txSeq, calls>>

\* --------------------------------------------------------- request_loan
\* SELECT COALESCE(MAX(loan_id), 0) + 1 FROM loans
next_id ==
    IF DOMAIN loans = {} THEN 1
    ELSE (CHOOSE l \in DOMAIN loans : \A k \in DOMAIN loans : k <= l) + 1

\* The two checks, then the INSERT ... RETURNING * run by fetch_one under
\* get_cursor() (commit=False): the row comes back to the caller and the
\* insert is discarded when the connection closes.  The interest rate and
\* the EMI stored on the row are left out.
request_loan(p, customer, account_id, principal_amount, tenure_months) ==
    /\ Enter(p)
    /\ IF account_id \notin DOMAIN accounts \/ customer_id(account_id) # customer
       THEN /\ EndUnit(p, NoWrites, FALSE)
            /\ Finish(p, "request_loan", "false", "Invalid account selected.")
       ELSE IF principal_amount <= 0 \/ tenure_months <= 0
       THEN /\ EndUnit(p, NoWrites, FALSE)
            /\ Finish(p, "request_loan", "false", "Amount and tenure must be positive.")
       ELSE /\ EndUnit(p, [NoWrites EXCEPT !.loan =
                              (next_id :>
                                 [customer_id |-> customer,
                                  linked_account_id |-> account_id,
                                  loan_number |-> loan_number(next_id),
                                  principal_amount |-> principal_amount,
                                  outstanding_balance |-> principal_amount,
                                  status |-> "PENDING", employee_id |-> NoEmployee,
                                  disbursement_date |-> "NULL"])],
                       FALSE)
            /\ Finish(p, "request_loan", "true", "Loan request submitted successfully.")
    /\ UNCHANGED txSeq

\* --------------------------------------------------- create_new_account
\* fetch_one runs the INSERT ... RETURNING under get_cursor() (commit=False):
\* the row is returned to the caller and the insert is discarded on close.
NextAccountId ==
    (CHOOSE a \in DOMAIN accounts : \A b \in DOMAIN accounts : b <= a) + 1

create_new_account(p, initial_deposit) ==
    /\ Enter(p)
    /\ EndUnit(p, [NoWrites EXCEPT !.bal = (NextAccountId :> initial_deposit)], FALSE)
    /\ Finish(p, "create_new_account", "row", "")
    /\ UNCHANGED txSeq

\* ------------------------------------------------------------ the store
\* The store's deadlock detector: a waiter in a wait-for cycle has its
\* statement fail; get_cursor rolls back and re-raises.
deadlock_detected(p) ==
    /\ InCycle(p)
    /\ RollbackUnit(p)
    /\ Finish(p, call[p].op, "raised", "deadlock detected")
    /\ UNCHANGED <<txSeq, calls>>

\* The request ends; the handler is free for the next request.
Return(p) ==
    /\ pc[p] = "done"
    /\ pc' = [pc EXCEPT ![p] = "idle"]
    /\ ret' = [ret EXCEPT ![p] = NoRet]
    /\ UNCHANGED <<accounts, transactions, loans, txSeq, holder, call, toLock, rd, wr, calls>>

Next ==
    \/ \E p \in Procs, f \in AccountIds, t \in AccountIds, a \in Amounts :
           transfer_money(p, f, t, a, "Transfer")
    \/ \E p \in Procs : tm_check(p)
    \/ \E p \in Procs : tm_lock(p)
    \/ \E p \in Procs : tm_not_found(p)
    \/ \E p \in Procs : tm_insufficient(p)
    \/ \E p \in Procs : tm_update(p)
    \/ \E p \in Procs : tm_commit(p)
    \/ \E p \in Procs, a \in AccountIds, ty \in TxTypeArgs, amt \in Amounts :
           create_transaction(p, a, ty, amt, NoAccount, "Posting")
    \/ \E p \in Procs : ct_lock(p)
    \/ \E p \in Procs : ct_commit(p)
    \/ \E p \in Procs, l \in LoanIds, e \in EmployeeIds : approve_loan(p, l, e)
    \/ \E p \in Procs : al_lock_loan(p)
    \/ \E p \in Procs : al_lock_account(p)
    \/ \E p \in Procs : al_commit(p)
    \/ \E p \in Procs, l \in LoanIds, e \in EmployeeIds : reject_loan(p, l, e)
    \/ \E p \in Procs : rl_update(p)
    \/ \E p \in Procs, d \in InitBalances : create_new_account(p, d)
    \/ \E p \in Procs : deadlock_detected(p)
    \/ \E p \in Procs : Return(p)

Spec == Init /\ [][Next]_vars

\* Each running handler keeps running, and the store grants a free lock to a
\* waiter and resolves a deadlock it detects.
Step(p) ==
    \/ tm_check(p) \/ tm_lock(p) \/ tm_not_found(p) \/ tm_insufficient(p)
    \/ tm_update(p) \/ tm_commit(p) \/ ct_lock(p) \/ ct_commit(p)
    \/ al_lock_loan(p) \/ al_lock_account(p) \/ al_commit(p) \/ rl_update(p)
    \/ deadlock_detected(p) \/ Return(p)

\* The store with both seeded accounts funded, so that transfers in either
\* direction pass the pre-check and reach the row locks.
LiveInit == Init /\ \A a \in SeedAccounts : accounts[a] = 1

LiveSpec == LiveInit /\ [][Next]_vars /\ \A p \in Procs : WF_vars(Step(p))

\* The seeded store with both accounts funded.
FundedInit == Init /\ \A a \in SeedAccounts : accounts[a] = 1

\* The funded store with its loan linked to an account that exists or to one
\* that does not.
LoanInit == SeedStore(LoanAccounts) /\ \A a \in SeedAccounts : accounts[a] = 1

LoanSpec == LoanInit /\ [][Next]_vars

\* Loan requests next to the employee's approve and reject.
RequestNext ==
    \/ \E p \in Procs, c \in CustomerIds, a \in AccountIds, pr \in Amounts,
          tn \in TenureArgs :
           request_loan(p, c, a, pr, tn)
    \/ \E p \in Procs, l \in LoanIds, e \in EmployeeIds : approve_loan(p, l, e)
    \/ \E p \in Procs : al_lock_loan(p)
    \/ \E p \in Procs : al_lock_account(p)
    \/ \E p \in Procs : al_commit(p)
    \/ \E p \in Procs, l \in LoanIds, e \in EmployeeIds : reject_loan(p, l, e)
    \/ \E p \in Procs : rl_update(p)
    \/ \E p \in Procs : Return(p)

RequestSpec == FundedInit /\ [][RequestNext]_vars

\* A store in which every account id of AccountIds has a funded account, and
\* transfers among them and to and from an id that has none.
ThreeAccountsInit ==
    /\ accounts = [a \in AccountIds |-> 1]
    /\ transactions = {TxRow(a, a, "CREDIT", 1, 1, NoAccount, "Opening deposit") :
                          a \in AccountIds}
    /\ loans = [l \in SeedLoans |->
                   [customer_id |-> customer_id(1),
                    linked_account_id |-> 1, loan_number |-> loan_number(l),
                    principal_amount |-> 1, outstanding_balance |-> 1,
                    status |-> "PENDING", employee_id |-> NoEmployee,
                    disbursement_date |-> "NULL"]]
    /\ txSeq = Cardinality(AccountIds) + 1
    /\ holder = [r \in Rows |-> NoProc]
    /\ pc = [p \in Procs |-> "idle"]
    /\ call = [p \in Procs |-> NoCall]
    /\ toLock = [p \in Procs |-> <<>>]
    /\ rd = [p \in Procs |-> EmptyMap]
    /\ wr = [p \in Procs |-> NoWrites]
    /\ ret = [p \in Procs |-> NoRet]
    /\ calls = 0

TransferNext ==
    \/ \E p \in Procs, f \in TransferArgs, t \in TransferArgs, a \in Amounts :
           transfer_money(p, f, t, a, "Transfer")
    \/ \E p \in Procs : tm_check(p)
    \/ \E p \in Procs : tm_lock(p)
    \/ \E p \in Procs : tm_not_found(p)
    \/ \E p \in Procs : tm_insufficient(p)
    \/ \E p \in Procs : tm_update(p)
    \/ \E p \in Procs : tm_commit(p)
    \/ \E p \in Procs : deadlock_detected(p)
    \/ \E p \in Procs : Return(p)

TransferSpec == ThreeAccountsInit /\ [][TransferNext]_vars

\* The balance mutator on its own: posts of every type on the function's
\* own connection and on a caller's cursor.
MutatorNext ==
    \/ \E p \in Procs, a \in PostAccounts, ty \in AllTxTypes, amt \in PostAmounts :
           create_transaction(p, a, ty, amt, NoAccount, "Posting")
    \/ \E p \in Procs : ct_lock(p)
    \/ \E p \in Procs : ct_commit(p)
    \/ \E p \in Procs : Return(p)

MutatorSpec == FundedInit /\ [][MutatorNext]_vars

\* Callers' units that post through create_transaction(cursor=cur), next to
\* posts on the function's own connection.
CallerNext ==
    \/ \E p \in Procs, a \in AccountIds, ty \in TxTypeArgs :
           create_transaction(p, a, ty, MaxAmount, NoAccount, "Posting")
    \/ \E p \in Procs : ct_lock(p)
    \/ \E p \in Procs : ct_commit(p)
    \/ \E p \in Procs, a \in AccountIds, b \in AccountIds, ty \in TxTypeArgs :
           caller_unit(p, a, b, ty, MaxAmount, "Posting")
    \/ \E p \in Procs : cu_first(p)
    \/ \E p \in Procs : cu_second(p)
    \/ \E p \in Procs : cu_commit(p)
    \/ \E p \in Procs : deadlock_detected(p)
    \/ \E p \in Procs : Return(p)

CallerSpec == FundedInit /\ [][CallerNext]_vars

\* ------------------------------------------------------------ properties
TxOf(a) == {t \in transactions : t.account_id = a}
LedgerSign(tx_type) ==
    IF upper(tx_type) \in {"WITHDRAWAL", "DEBIT", "TRANSFER_OUT"} THEN -1 ELSE 1

\* Replay of a set of rows in creation (tx_id) order, from zero.
RECURSIVE Replay(_)
Replay(S) ==
    IF S = {} THEN 0
    ELSE LET t == CHOOSE x \in S : \A y \in S : x.tx_id <= y.tx_id
         IN  LedgerSign(t.tx_type) * t.amount + Replay(S \ {t})

Latest(S) == CHOOSE x \in S : \A y \in S : y.tx_id <= x.tx_id

Returned(p, op, ok, msg) == ret[p] = [op |-> op, ok |-> ok, msg |-> msg]
TablesUnchanged == accounts' = accounts /\ transactions' = transactions

\* C1: a committing transfer of A from X to Y leaves X at its balance read
\* under lock minus A, Y at its balance read under lock plus A, and the sum
\* of the two committed balances as it was before the commit.
C1_Conservation ==
    [][\A p \in Procs :
          (pc[p] = "tm_commit" /\ pc'[p] = "done") =>
              LET X == call[p].account_id
                  Y == call[p].other
                  A == call[p].amount
              IN  /\ X # Y /\ A > 0
                  /\ ret'[p].ok = "true"
                  /\ accounts'[X] = rd[p][X] - A
                  /\ accounts'[Y] = rd[p][Y] + A
                  /\ accounts'[X] + accounts'[Y] = accounts[X] + accounts[Y]]_vars

C1_Witness ==
    \E p \in Procs :
        /\ Returned(p, "transfer_money", "true", "Transfer completed successfully.")
        /\ \E t \in transactions : t.tx_type = "DEBIT" /\ t.related_account # NoAccount

\* C2: a transfer that ends without success (a (False, reason) result or a
\* raised error) leaves accounts and transactions as they were, and so does
\* every step of a transfer before its commit.
C2_FailedTransferWritesNothing ==
    [][\A p \in Procs :
          /\ (call[p].op = "transfer_money" /\ pc'[p] = "done" /\ ret'[p].ok # "true")
                => (TablesUnchanged /\ wr[p] = NoWrites)
          /\ (call[p].op = "transfer_money" /\ pc[p] \in {"tm_check", "tm_select"}
                /\ <<pc'[p], toLock'[p]>> # <<pc[p], toLock[p]>>)
                => TablesUnchanged]_vars

C2_Witness ==
    \E p, q \in Procs :
        /\ Returned(p, "transfer_money", "raised", "One or both accounts not found.")
        /\ Returned(q, "transfer_money", "false", "Insufficient balance.")

C4_LatestBalanceAfter ==
    \A a \in DOMAIN accounts :
        TxOf(a) # {} => Latest(TxOf(a)).balance_after = accounts[a]

C4_Witness ==
    \E a \in DOMAIN accounts :
        /\ Cardinality(TxOf(a)) >= 2
        /\ \E t \in TxOf(a) : t.balance_after # accounts[a]
        /\ \E p \in Procs : holder[AcctRow(a)] = p /\ wr[p] # NoWrites

\* C5: the commit of a transfer adds exactly two rows, a DEBIT on X naming Y
\* and a CREDIT on Y naming X, both of amount A and each carrying its
\* account's new committed balance, together with both balance updates; no
\* other step of a transfer adds a row.
C5_TwoLegs ==
    [][\A p \in Procs :
          /\ (pc[p] = "tm_commit" /\ pc'[p] = "done") =>
                LET X == call[p].account_id
                    Y == call[p].other
                    A == call[p].amount
                    new == transactions' \ transactions
                IN  /\ Cardinality(new) = 2
                    /\ \E d, c \in new :
                          /\ d.tx_type = "DEBIT" /\ d.account_id = X
                          /\ d.related_account = Y /\ d.amount = A
                          /\ d.balance_after = accounts'[X]
                          /\ c.tx_type = "CREDIT" /\ c.account_id = Y
                          /\ c.related_account = X /\ c.amount = A
                          /\ c.balance_after = accounts'[Y]
                    /\ accounts'[X] = accounts[X] - A
                    /\ accounts'[Y] = accounts[Y] + A
          /\ (call[p].op = "transfer_money" /\ pc[p] # "tm_commit"
                /\ <<pc'[p], toLock'[p]>> # <<pc[p], toLock[p]>>)
                => TablesUnchanged]_vars

C5_Witness ==
    \E d, c \in transactions :
        /\ d.tx_type = "DEBIT" /\ c.tx_type = "CREDIT"
        /\ d.related_account = c.account_id /\ c.related_account = d.account_id
        /\ d.related_account # NoAccount /\ c.tx_id = d.tx_id + 1

\* C6: a transfer between two different accounts of a positive amount that
\* finds the source balance below the amount, at the pre-check or under
\* lock, returns (False, "Insufficient balance.") and writes nothing; one
\* for exactly the source balance passes both checks and debits it to zero.
C6_InsufficientFunds ==
    [][\A p \in Procs :
          LET X == call[p].account_id
              Y == call[p].other
              A == call[p].amount
              valid == call[p].op = "transfer_money" /\ X # Y /\ A > 0
              locked == pc[p] = "tm_select" /\ toLock[p] = <<>>
                            /\ X \in DOMAIN rd[p] /\ Y \in DOMAIN rd[p]
          IN  /\ (valid /\ pc[p] = "tm_check" /\ pc'[p] # "tm_check"
                    /\ X \in DOMAIN accounts /\ accounts[X] < A)
                    => (/\ pc'[p] = "done"
                        /\ ret'[p] = [op |-> "transfer_money", ok |-> "false",
                                      msg |-> "Insufficient balance."]
                        /\ TablesUnchanged)
              /\ (valid /\ locked /\ pc'[p] # pc[p] /\ rd[p][X] < A)
                    => (/\ pc'[p] = "done"
                        /\ ret'[p] = [op |-> "transfer_money", ok |-> "false",
                                      msg |-> "Insufficient balance."]
                        /\ TablesUnchanged)
              /\ (valid /\ pc[p] = "tm_check" /\ pc'[p] # "tm_check"
                    /\ X \in DOMAIN accounts /\ accounts[X] = A)
                    => pc'[p] = "tm_select"
              /\ (valid /\ locked /\ pc'[p] # pc[p] /\ rd[p][X] = A)
                    => (pc'[p] = "tm_commit" /\ wr'[p].bal[X] = 0)]_vars

C6_Witness ==
    \E p, q \in Procs :
        /\ Returned(p, "transfer_money", "false", "Insufficient balance.")
        /\ Returned(q, "transfer_money", "true", "Transfer completed successfully.")
        /\ \E a \in DOMAIN accounts : accounts[a] = 0 /\ TxOf(a) # {}

\* C7: no transfer_money call ends by raising for a missing account: a bad
\* account id is reported as a (False, reason) result.
C7_NoRaiseForBadAccount ==
    \A p \in Procs :
        ~Returned(p, "transfer_money", "raised", "One or both accounts not found.")

\* C8: no reachable state has a cycle of calls each waiting for a row lock
\* held by the next.
C8_NoWaitCycle == \A p \in Procs : ~InCycle(p)

\* C9: a transfer whose SELECT still has a row to lock holds no lock on an
\* account with a higher id than that row.
C9_AscendingLockOrder ==
    \A p \in Procs :
        (pc[p] = "tm_select" /\ toLock[p] # <<>>) =>
            \A a \in AccountIds : holder[AcctRow(a)] = p => a < Head(toLock[p])

\* C10: approve_loan holds its loan's row lock whenever it holds or waits
\* for an account's, transfer_money holds no loan row lock, no approve_loan,
\* reject_loan or create_transaction call is ever in a wait-for cycle, and
\* under fair scheduling every call that has started ends: eventually no
\* call is running any more.
C10_LockDiscipline ==
    \A p \in Procs :
        /\ (call[p].op = "approve_loan" /\ pc[p] \in {"al_account", "al_commit"})
              => holder[LoanRow(call[p].loan_id)] = p
        /\ (call[p].op = "approve_loan" /\ pc[p] = "al_loan")
              => \A a \in AccountIds : holder[AcctRow(a)] # p
        /\ call[p].op # "approve_loan"
              => \A l \in LoanIds : holder[LoanRow(l)] # p
        /\ InCycle(p) => call[p].op = "transfer_money"

C10_NoCrossComponentDeadlock ==
    /\ []C10_LockDiscipline
    /\ <>[](\A p \in Procs : pc[p] = "idle")

C10_Witness ==
    \E p, q \in Procs :
        /\ call[p].op = "approve_loan" /\ pc[p] = "al_account"
        /\ call[q].op = "transfer_money" /\ pc[q] \in {"tm_select", "tm_commit"}
        /\ WaitsOn(p, q)

\* C11: a balance a call has read under a row lock it still holds is the
\* committed balance, and every commit of a transfer, a balance-mutator post
\* or a loan disbursement moves each account from its committed balance by
\* exactly the signed amounts of the rows that commit adds for it.
C11_ReadIsCurrent ==
    \A p \in Procs : \A a \in DOMAIN rd[p] :
        holder[AcctRow(a)] = p => rd[p][a] = accounts[a]

C11_NoLostUpdate ==
    /\ []C11_ReadIsCurrent
    /\ [][\A p \in Procs :
             (pc[p] \in {"tm_commit", "ct_commit", "al_commit"} /\ pc'[p] = "done") =>
                 /\ transactions' = transactions \cup wr[p].txs
                 /\ \A a \in DOMAIN accounts :
                       accounts'[a] = accounts[a] +
                           Replay({t \in wr[p].txs : t.account_id = a})]_vars

C11_Witness ==
    \E p, q \in Procs : \E a \in DOMAIN accounts :
        /\ p # q
        /\ holder[AcctRow(a)] = p /\ a \in DOMAIN wr[p].bal
        /\ WaitsOn(q, p) /\ AcctRow(a) \in Wanted(q)
        /\ call[p].op # call[q].op

\* C12: a transfer that passed the pre-check and finds the source balance
\* below the amount under lock returns (False, "Insufficient balance.") with
\* no write, and the commit of a transfer leaves no account with a negative
\* balance when none had one before it.
C12_CheckUnderLock ==
    [][\A p \in Procs :
          LET X == call[p].account_id
              A == call[p].amount
          IN  /\ (pc[p] = "tm_select" /\ toLock[p] = <<>> /\ pc'[p] # pc[p]
                    /\ X \in DOMAIN rd[p] /\ call[p].other \in DOMAIN rd[p]
                    /\ rd[p][X] < A)
                    => (/\ Returned(p, "transfer_money", "false", "Insufficient balance.")'
                        /\ wr[p] = NoWrites /\ wr'[p] = NoWrites
                        /\ TablesUnchanged)
              /\ (call[p].op = "transfer_money" /\ pc'[p] # pc[p]
                    /\ \A a \in DOMAIN accounts : accounts[a] >= 0)
                    => \A a \in DOMAIN accounts : accounts'[a] >= 0]_vars

C12_Witness ==
    \E p, q \in Procs :
        /\ Returned(p, "transfer_money", "true", "Transfer completed successfully.")
        /\ pc[q] = "tm_select" /\ toLock[q] = <<>>
        /\ call[q].account_id \in DOMAIN rd[q] /\ call[q].other \in DOMAIN rd[q]
        /\ rd[q][call[q].account_id] < call[q].amount

\* The step in which a post on the function's own connection commits.
PostCommits(p) == pc[p] = "ct_commit" /\ pc'[p] = "done"

\* C13 as stated: a committing post of type T and amount A on an account with
\* balance B leaves it at B - A when T is exactly WITHDRAWAL, DEBIT or
\* TRANSFER_OUT and at B + A for every other T, and adds exactly one row, of
\* type T and amount A, whose balance_after is the new balance.
C13_SignRuleExactCase ==
    [][\A p \in Procs :
          PostCommits(p) =>
              LET a == call[p].account_id
                  T == call[p].tx_type
                  A == call[p].amount
                  new == transactions' \ transactions
              IN  /\ accounts'[a] =
                        IF T \in {"WITHDRAWAL", "DEBIT", "TRANSFER_OUT"}
                        THEN accounts[a] - A ELSE accounts[a] + A
                  /\ Cardinality(new) = 1
                  /\ \A t \in new : /\ t.account_id = a /\ t.tx_type = T
                                     /\ t.amount = A
                                     /\ t.balance_after = accounts'[a]]_vars

\* C13 as amended: the same, with T compared in upper case: B - A when
\* T.upper() is WITHDRAWAL, DEBIT or TRANSFER_OUT, B + A otherwise; the row
\* keeps T as it was passed.
C13_SignRule ==
    [][\A p \in Procs :
          PostCommits(p) =>
              LET a == call[p].account_id
                  T == call[p].tx_type
                  A == call[p].amount
                  new == transactions' \ transactions
              IN  /\ accounts'[a] =
                        IF upper(T) \in {"WITHDRAWAL", "DEBIT", "TRANSFER_OUT"}
                        THEN accounts[a] - A ELSE accounts[a] + A
                  /\ \A b \in DOMAIN accounts \ {a} : accounts'[b] = accounts[b]
                  /\ Cardinality(new) = 1
                  /\ \A t \in new : /\ t.account_id = a /\ t.tx_type = T
                                     /\ t.amount = A
                                     /\ t.balance_after = accounts'[a]]_vars

C13_Witness ==
    \E t, u \in transactions :
        /\ t.tx_type = "debit" /\ t.amount > 0
        /\ u.tx_type \in {"FEE", "TRANSFER_OUT", "WITHDRAWAL"} /\ u.amount > 0
        /\ t.account_id = u.account_id
        /\ accounts[t.account_id] \in {t.balance_after, u.balance_after}

\* C14: a post with amount <= 0 ends by raising and leaves accounts and
\* transactions as they were, and no committed row has an amount <= 0.
C14_AmountsPositive == \A t \in transactions : t.amount > 0

C14_RejectsNonPositive ==
    /\ []C14_AmountsPositive
    /\ [][\A p \in Procs :
             (call[p].op = "create_transaction" /\ call[p].amount <= 0
                /\ pc[p] = "ct_lock" /\ pc'[p] # pc[p])
                => (pc'[p] = "done" /\ ret'[p].ok = "raised" /\ TablesUnchanged)]_vars

DisbursementRowsIn(txs, loan) ==
    {t \in txs :
        /\ t.account_id = loan.linked_account_id /\ t.tx_type = "CREDIT"
        /\ t.related_account = NoAccount
        /\ t.description = "Loan disbursement #" \o loan.loan_number}
DisbursementRows(l) == DisbursementRowsIn(transactions, loans[l])

\* A step of the approve_loan call that handler p is running.
ApproveStep(p) == call[p].op = "approve_loan" /\ pc'[p] # pc[p]

\* C16: an approve_loan(L, E) call on a PENDING loan of principal P whose
\* linked account exists goes on to its commit once it has the account's row
\* lock, and the commit moves the linked balance from B to B + P, adds exactly
\* one row (CREDIT, amount P, balance_after B + P, no related_account) on the
\* linked account, and sets the loan to ACTIVE with a disbursement date and
\* employee_id E; no other account or loan changes.
C16_Disbursement ==
    [][\A p \in Procs :
          LET l == call[p].loan_id
              a == loans[l].linked_account_id
              P == loans[l].principal_amount
              new == transactions' \ transactions
          IN  /\ (ApproveStep(p) /\ pc[p] = "al_account" /\ a \in DOMAIN accounts
                    /\ loans[l].status = "PENDING")
                    => pc'[p] = "al_commit"
              /\ (ApproveStep(p) /\ pc[p] = "al_commit" /\ loans[l].status = "PENDING")
                    => /\ accounts'[a] = accounts[a] + P
                       /\ \A b \in DOMAIN accounts \ {a} : accounts'[b] = accounts[b]
                       /\ Cardinality(new) = 1
                       /\ transactions \subseteq transactions'
                       /\ \A t \in new :
                             /\ t.account_id = a /\ t.tx_type = "CREDIT"
                             /\ t.amount = P /\ t.balance_after = accounts[a] + P
                             /\ t.related_account = NoAccount
                       /\ loans'[l] = [loans[l] EXCEPT
                                          !.status = "ACTIVE",
                                          !.disbursement_date = "CURRENT_DATE",
                                          !.employee_id = call[p].employee_id]
                       /\ call[p].employee_id \in EmployeeIds
                       /\ \A k \in DOMAIN loans \ {l} : loans'[k] = loans[k]]_vars

C16_Witness ==
    \E p \in Procs : \E l \in DOMAIN loans :
        /\ Returned(p, "approve_loan", "none", "")
        /\ loans[l].status = "ACTIVE" /\ loans[l].employee_id \in EmployeeIds
        /\ loans[l].disbursement_date = "CURRENT_DATE"
        /\ Cardinality(DisbursementRows(l)) = 1

\* C17: no step of an approve_loan call on a loan that is not PENDING changes
\* accounts or transactions, and no loan has more than one disbursement row.
C17_AtMostOneDisbursement ==
    \A l \in DOMAIN loans : Cardinality(DisbursementRows(l)) <= 1

C17_NoSecondDisbursement ==
    /\ []C17_AtMostOneDisbursement
    /\ [][\A p \in Procs :
             (ApproveStep(p) /\ call[p].loan_id \in DOMAIN loans
                /\ loans[call[p].loan_id].status # "PENDING")
                => TablesUnchanged]_vars

\* C18: the status of a loan that is ACTIVE or REJECTED never changes.
C18_StatusChangesOnce ==
    [][\A l \in DOMAIN loans :
          loans[l].status # "PENDING" => loans'[l].status = loans[l].status]_vars

\* C19: in every committed state an ACTIVE loan has a disbursement row and a
\* PENDING loan has none, and a step of approve_loan that changes the linked
\* balance, the transactions or the loan changes all three at once: the
\* balance goes up by the principal, one disbursement row is added and the
\* loan becomes ACTIVE.
C19_ActiveIffDisbursed ==
    \A l \in DOMAIN loans :
        /\ loans[l].status = "ACTIVE" => DisbursementRows(l) # {}
        /\ loans[l].status = "PENDING" => DisbursementRows(l) = {}

C19_AtomicDisbursement ==
    /\ []C19_ActiveIffDisbursed
    /\ [][\A p \in Procs :
             (ApproveStep(p)
                /\ (accounts' # accounts \/ transactions' # transactions \/ loans' # loans))
                => LET l == call[p].loan_id
                       a == loans[l].linked_account_id
                   IN  /\ accounts'[a] = accounts[a] + loans[l].principal_amount
                       /\ Cardinality(transactions' \ transactions) = 1
                       /\ (transactions' \ transactions) \subseteq
                              DisbursementRowsIn(transactions', loans[l])
                       /\ loans'[l].status = "ACTIVE"]_vars

C19_Witness ==
    \E p, q \in Procs : \E l \in DOMAIN loans :
        /\ loans[l].status = "ACTIVE" /\ DisbursementRows(l) # {}
        /\ Returned(p, "approve_loan", "none", "")
        /\ call[q].op \in {"transfer_money", "create_transaction"}
        /\ holder[AcctRow(loans[l].linked_account_id)] = q

\* C20: an approve_loan call whose loan id or whose loan's linked account does
\* not exist changes no table in any of its steps and returns without
\* raising, at the statement that finds the row missing.
C20_SilentNoOp ==
    [][\A p \in Procs :
          LET l == call[p].loan_id
              no_loan == l \notin DOMAIN loans
              no_account == ~no_loan /\ loans[l].linked_account_id \notin DOMAIN accounts
          IN  (ApproveStep(p) /\ (no_loan \/ no_account))
                => /\ loans' = loans /\ TablesUnchanged
                   /\ wr'[p] = NoWrites
                   /\ (no_loan \/ pc[p] = "al_account")
                         => Returned(p, "approve_loan", "none", "")'
                   /\ (no_account /\ pc[p] = "al_loan") => pc'[p] = "al_account"]_vars

C20_Witness ==
    \E p, q \in Procs : \E l \in DOMAIN loans :
        /\ loans[l].linked_account_id \notin DOMAIN accounts
        /\ call[p].op = "approve_loan" /\ call[p].loan_id = l
        /\ pc[p] = "al_account" /\ holder[LoanRow(l)] = p
        /\ Returned(q, "approve_loan", "none", "")
        /\ loans[l].status = "PENDING"

\* C21: a reject_loan(L, E) call on an existing loan leaves the loan REJECTED
\* with employee_id E and changes no account, no transaction row and no other
\* loan, and no REJECTED loan has a disbursement row on its linked account.
C21_RejectedNeverCredited ==
    \A l \in DOMAIN loans :
        loans[l].status = "REJECTED" => DisbursementRows(l) = {}

C21_RejectFrame ==
    /\ []C21_RejectedNeverCredited
    /\ [][\A p \in Procs :
             (call[p].op = "reject_loan" /\ pc'[p] # pc[p]
                /\ call[p].loan_id \in DOMAIN loans)
                => LET l == call[p].loan_id
                   IN  /\ loans'[l] = [loans[l] EXCEPT
                                          !.status = "REJECTED",
                                          !.employee_id = call[p].employee_id]
                       /\ \A k \in DOMAIN loans \ {l} : loans'[k] = loans[k]
                       /\ TablesUnchanged]_vars

\* Rows inserted by connections that have not committed yet.
Staged == UNION {wr[q].txs : q \in Procs}

\* C22: no two rows, committed or inserted and not yet committed, share a
\* tx_id; no step removes or changes a committed row; a row becomes committed
\* exactly as it was inserted; and every INSERT gives its row a tx_id greater
\* than that of every row inserted before it.
C22_UniqueIds ==
    \A t, u \in transactions \cup Staged : t.tx_id = u.tx_id => t = u

C22_AppendOnly ==
    /\ []C22_UniqueIds
    /\ [][/\ transactions \subseteq transactions'
          /\ (transactions' \ transactions) \subseteq Staged
          /\ txSeq' >= txSeq
          /\ \A t \in Staged' \ Staged :
                /\ txSeq <= t.tx_id /\ t.tx_id < txSeq'
                /\ \A u \in transactions \cup Staged : u.tx_id < t.tx_id]_vars

C22_Witness ==
    \E t \in transactions : \E u \in Staged :
        /\ u.tx_id < t.tx_id
        /\ \E v \in transactions : v.tx_id < u.tx_id

\* C23: whenever a request_loan call has returned (True, "Loan request
\* submitted successfully."), the committed loans table holds a loan that was
\* not there at the start.
C23_RequestCreatesLoan ==
    \A p \in Procs :
        Returned(p, "request_loan", "true", "Loan request submitted successfully.")
            => \E l \in DOMAIN loans : l \notin SeedLoans

\* A handler is inside an atomic unit from its first locking statement to
\* its commit or rollback.
InUnit(p) ==
    pc[p] \in {"tm_select", "tm_commit", "ct_lock", "ct_commit",
               "al_loan", "al_account", "al_commit", "rl_update"}

\* C24: a handler that is not inside a unit holds no row lock, so no call
\* waits for a finished one; a lock once taken is kept through every step of
\* the unit; and the step that ends the unit - commit, return from inside the
\* unit, or raised error - releases every lock the handler holds.
C24_NoLockOutsideUnit ==
    \A p \in Procs :
        /\ ~InUnit(p) => \A r \in Rows : holder[r] # p
        /\ \A q \in Procs : WaitsOn(q, p) => InUnit(p)

C24_LocksHeldToEnd ==
    /\ []C24_NoLockOutsideUnit
    /\ [][\A p \in Procs : \A r \in Rows :
             /\ (holder[r] = p /\ holder'[r] # p)
                   => (pc'[p] = "done" /\ \A x \in Rows : holder'[x] # p)
             /\ (holder[r] = p /\ pc'[p] # "done") => holder'[r] = p
             /\ (InUnit(p) /\ pc'[p] = "done") => \A x \in Rows : holder'[x] # p]_vars

C24_Witness ==
    \E p, q \in Procs : \E r \in Rows :
        /\ p # q
        /\ Returned(p, "transfer_money", "raised", "One or both accounts not found.")
        /\ holder[r] = q /\ wr[q] # NoWrites

\* C25: no step of a transfer_money(X, Y, A) call, whatever its outcome,
\* changes a loan row, adds or removes an account, changes the balance of an
\* account other than X and Y, or inserts or commits a transaction row on an
\* account other than X and Y.
C25_TransferFrame ==
    [][\A p \in Procs :
          (call[p].op = "transfer_money" /\ pc'[p] # pc[p]) =>
              LET X == call[p].account_id
                  Y == call[p].other
              IN  /\ loans' = loans
                  /\ DOMAIN accounts' = DOMAIN accounts
                  /\ \A a \in DOMAIN accounts \ {X, Y} : accounts'[a] = accounts[a]
                  /\ \A t \in (transactions' \ transactions) \cup wr'[p].txs :
                        t.account_id \in {X, Y}
                  /\ DOMAIN wr'[p].bal \subseteq {X, Y}]_vars

C25_Witness ==
    \E p \in Procs : \E a, b, c \in DOMAIN accounts :
        /\ Returned(p, "transfer_money", "true", "Transfer completed successfully.")
        /\ a # b /\ b # c /\ a # c
        /\ Cardinality(TxOf(a)) = 1 /\ accounts[a] = 1
        /\ Cardinality(TxOf(b)) = 2 /\ Cardinality(TxOf(c)) = 2

====
